---- MODULE Spec2Model ----
(***************************************************************************)
(* Order routes of the e-commerce backend (src/routes/api/order-routes.ts). *)
(* Every request handler is an async function: it runs without             *)
(* interruption between two awaits, and other requests may run at each      *)
(* await.  One action of this module is one such uninterrupted piece of a   *)
(* handler: the persistence call whose result the await delivers, followed  *)
(* by the synchronous code up to the next await.                            *)
(***************************************************************************)
EXTENDS Integers, Sequences, FiniteSets, TLC

VARIABLES stock, orders, orderItems, nextOrderId, nextItemId, rq, resp, pre, started

vars == <<stock, orders, orderItems, nextOrderId, nextItemId, rq, resp, pre, started>>

db == <<stock, orders, orderItems, nextOrderId, nextItemId>>

\* what the run keeps beside the program's state
aux == <<pre, started>>

----------------------------------------------------------------------------
(* Bounds of the model *)

MaxOrders == 2      \* Order rows ever inserted
MaxItems == 2       \* entries of one request's products list
MaxQty == 2         \* largest requested quantity
MaxStock == 2       \* largest initial stock of a product
MaxRequests == 3    \* requests made in one run

Reqs == {1, 2}                       \* requests in flight at the same time
Products == {1, 2}                   \* rows of the Product table
ProductIds == Products \cup {3}      \* ids a request may name; 3 has no row
OrderIds == 1..(MaxOrders + 1)       \* ids a request may name
Users == {1}                         \* rows of the User table
\* what verifyToken attaches to a request; the admin's User row is gone
Callers == {[id |-> 1, role |-> "user"], [id |-> 2, role |-> "admin"]}
Statuses == {"shipped", "no-such-status"}
UserIdParams == {<<"1">>, <<"2">>, <<"1", "2">>}     \* "1", "2" and "12"

ProductPrice == [p \in Products |-> 2 * p + 1]

Items == [productId : ProductIds, quantity : 1..MaxQty]

RECURSIVE SeqsUpTo(_, _)
SeqsUpTo(S, n) ==
    IF n = 0 THEN {<<>>}
    ELSE LET shorter == SeqsUpTo(S, n - 1)
         IN  shorter \cup {Append(s, x) : s \in shorter, x \in S}

ItemLists == SeqsUpTo(Items, MaxItems)

\* the lists used when requests race: the most of one product, or one of each
RacingItemLists ==
    {<<[productId |-> 1, quantity |-> MaxQty]>>,
     <<[productId |-> 1, quantity |-> 1], [productId |-> 2, quantity |-> 1]>>}

----------------------------------------------------------------------------
(* Request state: the handler's arguments and local variables *)

IdleReq ==
    [op |-> "none", pc |-> "idle",
     caller |-> [id |-> 0, role |-> "none"],
     products |-> <<>>, orderId |-> 0, status |-> "", userId |-> <<>>,
     i |-> 0, totalPrice |-> 0, productDetails |-> <<>>, newOrder |-> 0,
     order |-> <<>>, orderItems |-> <<>>, fullOrder |-> <<>>,
     found |-> {}, email |-> "none", errorProduct |-> 0]

\* the tables as a request finds them when it enters its handler
Snapshot == [stock |-> stock, orders |-> orders, orderItems |-> orderItems]

Active(r) == rq[r].pc \notin {"idle", "done"}

\* one more request arrives, and is given the first free place
Admit(r) ==
    /\ started < MaxRequests
    /\ started' = started + 1
    /\ \A q \in Reqs : q < r => rq[q].pc # "idle"

----------------------------------------------------------------------------
(* Persistence calls, as the handlers use them *)

\* Product.findByPk(id): an instance holding the row's values, or null
ProductFindByPk(p) ==
    IF p \in Products
    THEN <<[id |-> p, stock |-> stock[p], price |-> ProductPrice[p]]>>
    ELSE <<>>

\* Order.findByPk(id)
OrderFindByPk(id) ==
    IF \E o \in orders : o.id = id
    THEN <<CHOOSE o \in orders : o.id = id>>
    ELSE <<>>

\* User.findByPk(id)
UserFindByPk(id) == IF id \in Users THEN <<[id |-> id]>> ELSE <<>>

\* OrderItem.findAll({ where: { orderId } }), in primary-key order
RECURSIVE SortById(_)
SortById(S) ==
    IF S = {} THEN <<>>
    ELSE LET first == CHOOSE x \in S : \A y \in S : x.id <= y.id
         IN  <<first>> \o SortById(S \ {first})

OrderItemFindAll(orderId) == SortById({it \in orderItems : it.orderId = orderId})

\* res.status(code).json(...): the calls a handler makes on its response, in order
Respond(r, code) == resp' = [resp EXCEPT ![r] = Append(@, code)]

----------------------------------------------------------------------------
(* POST / : create a new order *)

\* the stock check left out
InsufficientStock_never(productDetails, quantity) == FALSE

\* the stock check off by one
InsufficientStock_offByOne(productDetails, quantity) ==
    productDetails.stock + 1 < quantity

\* line 77
InsufficientStock(productDetails, quantity) == productDetails.stock < quantity

\* the quantity left out of the total
LineTotal_unitPrice(productDetails, quantity) == productDetails.price

\* line 82
LineTotal(productDetails, quantity) == productDetails.price * quantity

\* the stock not taken
StockAfterSale_kept(productDetails, quantity) == productDetails.stock

\* line 84
StockAfterSale(productDetails, quantity) == productDetails.stock - quantity

\* where the handler goes after the first loop's i-th iteration
AfterFirstLoop(products, i) ==
    IF i < Len(products) THEN "c_find" ELSE "c_create"

\* where the handler goes after the second loop's i-th iteration
AfterSecondLoop(products, i) ==
    IF i < Len(products) THEN "c_find2" ELSE "c_fetch"

\* the handler is entered (verifyToken has attached the caller)
StartCreate(r, callers, lists) ==
    /\ rq[r].pc = "idle"
    /\ Admit(r)
    \* no more than MaxOrders Order rows are ever inserted
    /\ nextOrderId + Cardinality({q \in Reqs : rq[q].op = "create" /\ Active(q)
                                              /\ rq[q].newOrder = 0}) <= MaxOrders
    /\ \E caller \in callers, products \in lists :
          rq' = [rq EXCEPT ![r] = [IdleReq EXCEPT
                    !.op = "create", !.caller = caller, !.products = products,
                    !.i = 1, !.pc = AfterFirstLoop(products, 0)]]
    /\ UNCHANGED <<db, resp>>

\* lines 74-84: findByPk resolves; skip, refuse (errorProduct is the id in the
\* 400's message), or take the stock
CreateFindProduct(r) ==
    /\ rq[r].op = "create" /\ rq[r].pc = "c_find"
    /\ LET me == rq[r]
           product == me.products[me.i]
           productDetails == ProductFindByPk(product.productId)
       IN  IF productDetails = <<>>
           THEN /\ rq' = [rq EXCEPT ![r].i = me.i + 1,
                                    ![r].pc = AfterFirstLoop(me.products, me.i)]
                /\ UNCHANGED resp
           ELSE IF InsufficientStock(Head(productDetails), product.quantity)
           THEN /\ Respond(r, 400)
                /\ rq' = [rq EXCEPT ![r].errorProduct = product.productId,
                                    ![r].pc = "done"]
           ELSE /\ rq' = [rq EXCEPT
                     ![r].totalPrice = @ + LineTotal(Head(productDetails), product.quantity),
                     ![r].productDetails =
                         <<[Head(productDetails) EXCEPT
                              !.stock = StockAfterSale(Head(productDetails), product.quantity)]>>,
                     ![r].pc = "c_save"]
                /\ UNCHANGED resp
    /\ UNCHANGED <<db, aux>>

\* line 85: productDetails.save() writes the instance's stock to the row
CreateSaveProduct(r) ==
    /\ rq[r].op = "create" /\ rq[r].pc = "c_save"
    /\ LET me == rq[r]
           productDetails == Head(me.productDetails)
       IN  /\ stock' = [stock EXCEPT ![productDetails.id] = productDetails.stock]
           /\ rq' = [rq EXCEPT ![r].i = me.i + 1, ![r].productDetails = <<>>,
                               ![r].pc = AfterFirstLoop(me.products, me.i)]
    /\ UNCHANGED <<orders, orderItems, nextOrderId, nextItemId, resp, aux>>

\* lines 89-93: Order.create
CreateOrderRow(r) ==
    /\ rq[r].op = "create" /\ rq[r].pc = "c_create"
    /\ LET me == rq[r]
       IN  /\ orders' = orders \cup {[id |-> nextOrderId, userId |-> me.caller.id,
                                      totalPrice |-> me.totalPrice, status |-> "pending"]}
           /\ nextOrderId' = nextOrderId + 1
           /\ rq' = [rq EXCEPT ![r].newOrder = nextOrderId, ![r].i = 1,
                               ![r].pc = AfterSecondLoop(me.products, 0)]
    /\ UNCHANGED <<stock, orderItems, nextItemId, resp, aux>>

\* lines 97-98: the second lookup of each product
CreateFindProduct2(r) ==
    /\ rq[r].op = "create" /\ rq[r].pc = "c_find2"
    /\ LET me == rq[r]
           product == me.products[me.i]
           productDetails == ProductFindByPk(product.productId)
       IN  IF productDetails = <<>>
           THEN rq' = [rq EXCEPT ![r].i = me.i + 1,
                                 ![r].pc = AfterSecondLoop(me.products, me.i)]
           ELSE rq' = [rq EXCEPT ![r].productDetails = productDetails,
                                 ![r].pc = "c_item"]
    /\ UNCHANGED <<db, resp, aux>>

\* lines 100-105: OrderItem.create
CreateOrderItem(r) ==
    /\ rq[r].op = "create" /\ rq[r].pc = "c_item"
    /\ LET me == rq[r]
           product == me.products[me.i]
       IN  /\ orderItems' = orderItems \cup
                  {[id |-> nextItemId, orderId |-> me.newOrder,
                    productId |-> product.productId, quantity |-> product.quantity,
                    price |-> Head(me.productDetails).price]}
           /\ nextItemId' = nextItemId + 1
           /\ rq' = [rq EXCEPT ![r].i = me.i + 1, ![r].productDetails = <<>>,
                               ![r].pc = AfterSecondLoop(me.products, me.i)]
    /\ UNCHANGED <<stock, orders, nextOrderId, resp, aux>>

\* the response held back until the email is sent
RespondCreated_afterEmail(r) == UNCHANGED resp

\* line 115: the response is sent before the email is
RespondCreated(r) == Respond(r, 201)

\* lines 108-119: the order is read back and sent; sendEmail is then called
CreateFetch(r) ==
    /\ rq[r].op = "create" /\ rq[r].pc = "c_fetch"
    /\ rq' = [rq EXCEPT ![r].fullOrder = OrderFindByPk(rq[r].newOrder),
                        ![r].pc = "c_email"]
    /\ RespondCreated(r)
    /\ UNCHANGED <<db, aux>>

\* lines 119-124: sendEmail resolves, or rejects and the catch block answers 500
CreateEmail(r) ==
    /\ rq[r].op = "create" /\ rq[r].pc = "c_email"
    /\ \/ /\ rq' = [rq EXCEPT ![r].email = "sent", ![r].pc = "done"]
          /\ UNCHANGED resp
       \/ /\ rq' = [rq EXCEPT ![r].email = "failed", ![r].pc = "done"]
          /\ Respond(r, 500)
    /\ UNCHANGED <<db, aux>>

----------------------------------------------------------------------------
(* PUT /:id : update an order's status (isAdmin has let the request in) *)

\* the status checked against an allowed set
WithStatus_validated(order, status) ==
    IF status \in {"pending", "shipped"} THEN [order EXCEPT !.status = status] ELSE order

\* line 137
WithStatus(order, status) == [order EXCEPT !.status = status]

StartUpdate(r, orderIds, statuses) ==
    /\ rq[r].pc = "idle"
    /\ Admit(r)
    /\ \E orderId \in orderIds, status \in statuses :
          rq' = [rq EXCEPT ![r] = [IdleReq EXCEPT
                    !.op = "update", !.orderId = orderId, !.status = status,
                    !.pc = "u_find"]]
    /\ UNCHANGED <<db, resp>>

\* lines 134-142: findByPk resolves
UpdateFind(r) ==
    /\ rq[r].op = "update" /\ rq[r].pc = "u_find"
    /\ LET order == OrderFindByPk(rq[r].orderId)
       IN  IF order # <<>>
           THEN /\ rq' = [rq EXCEPT ![r].order = <<WithStatus(Head(order), rq[r].status)>>,
                                    ![r].pc = "u_save"]
                /\ UNCHANGED resp
           ELSE /\ Respond(r, 404)
                /\ rq' = [rq EXCEPT ![r].pc = "done"]
    /\ UNCHANGED <<db, aux>>

\* lines 138-139: order.save() updates the changed column of the row with that id
UpdateSave(r) ==
    /\ rq[r].op = "update" /\ rq[r].pc = "u_save"
    /\ LET order == Head(rq[r].order)
       IN  orders' = {IF o.id = order.id THEN [o EXCEPT !.status = order.status] ELSE o
                        : o \in orders}
    /\ Respond(r, 200)
    /\ rq' = [rq EXCEPT ![r].pc = "done"]
    /\ UNCHANGED <<stock, orderItems, nextOrderId, nextItemId, aux>>

----------------------------------------------------------------------------
(* DELETE /:id : delete an order (isAdmin has let the request in) *)

\* line 164
StockAfterRestore(product, quantity) == product.stock + quantity

\* where the handler goes after the restore loop's i-th iteration
AfterRestoreLoop(items, i) ==
    IF i < Len(items) THEN "d_find" ELSE "d_destroyItems"

StartDelete(r, orderIds) ==
    /\ rq[r].pc = "idle"
    /\ Admit(r)
    /\ \E orderId \in orderIds :
          rq' = [rq EXCEPT ![r] = [IdleReq EXCEPT
                    !.op = "delete", !.orderId = orderId, !.pc = "d_order"]]
    /\ UNCHANGED <<db, resp>>

\* line 153
DeleteFindOrder(r) ==
    /\ rq[r].op = "delete" /\ rq[r].pc = "d_order"
    /\ rq' = [rq EXCEPT ![r].order = OrderFindByPk(rq[r].orderId),
                        ![r].pc = "d_items"]
    /\ UNCHANGED <<db, resp, aux>>

\* lines 154-161: the order's items are read; only then is a missing order refused
DeleteFindItems(r) ==
    /\ rq[r].op = "delete" /\ rq[r].pc = "d_items"
    /\ LET items == OrderItemFindAll(rq[r].orderId)
       IN  IF rq[r].order = <<>>
           THEN /\ Respond(r, 404)
                /\ rq' = [rq EXCEPT ![r].pc = "done"]
           ELSE /\ rq' = [rq EXCEPT ![r].orderItems = items, ![r].i = 1,
                                    ![r].pc = AfterRestoreLoop(items, 0)]
                /\ UNCHANGED resp
    /\ UNCHANGED <<db, aux>>

\* lines 162-164
DeleteFindProduct(r) ==
    /\ rq[r].op = "delete" /\ rq[r].pc = "d_find"
    /\ LET me == rq[r]
           orderItem == me.orderItems[me.i]
           product == ProductFindByPk(orderItem.productId)
       IN  IF product # <<>>
           THEN rq' = [rq EXCEPT
                    ![r].productDetails =
                        <<[Head(product) EXCEPT
                             !.stock = StockAfterRestore(Head(product), orderItem.quantity)]>>,
                    ![r].pc = "d_save"]
           ELSE rq' = [rq EXCEPT ![r].i = me.i + 1,
                                 ![r].pc = AfterRestoreLoop(me.orderItems, me.i)]
    /\ UNCHANGED <<db, resp, aux>>

\* line 165
DeleteSaveProduct(r) ==
    /\ rq[r].op = "delete" /\ rq[r].pc = "d_save"
    /\ LET me == rq[r]
           product == Head(me.productDetails)
       IN  /\ stock' = [stock EXCEPT ![product.id] = product.stock]
           /\ rq' = [rq EXCEPT ![r].i = me.i + 1, ![r].productDetails = <<>>,
                               ![r].pc = AfterRestoreLoop(me.orderItems, me.i)]
    /\ UNCHANGED <<orders, orderItems, nextOrderId, nextItemId, resp, aux>>

\* line 169
DeleteDestroyItems(r) ==
    /\ rq[r].op = "delete" /\ rq[r].pc = "d_destroyItems"
    /\ orderItems' = {it \in orderItems : it.orderId # rq[r].orderId}
    /\ rq' = [rq EXCEPT ![r].pc = "d_destroyOrder"]
    /\ UNCHANGED <<stock, orders, nextOrderId, nextItemId, resp, aux>>

\* line 172: the response is sent before the owner is looked up
RespondDeleted(r) == Respond(r, 200)

\* lines 170-175
DeleteDestroyOrder(r) ==
    /\ rq[r].op = "delete" /\ rq[r].pc = "d_destroyOrder"
    /\ orders' = {o \in orders : o.id # rq[r].orderId}
    /\ RespondDeleted(r)
    /\ rq' = [rq EXCEPT ![r].pc = "d_user"]
    /\ UNCHANGED <<stock, orderItems, nextOrderId, nextItemId, aux>>

\* lines 175-179: the owner of the order read at line 153
DeleteFindUser(r) ==
    /\ rq[r].op = "delete" /\ rq[r].pc = "d_user"
    /\ LET user == UserFindByPk(Head(rq[r].order).userId)
       IN  rq' = [rq EXCEPT ![r].pc = IF user # <<>> THEN "d_email" ELSE "done"]
    /\ UNCHANGED <<db, resp, aux>>

\* lines 179-185
DeleteEmail(r) ==
    /\ rq[r].op = "delete" /\ rq[r].pc = "d_email"
    /\ \/ /\ rq' = [rq EXCEPT ![r].email = "sent", ![r].pc = "done"]
          /\ UNCHANGED resp
       \/ /\ rq' = [rq EXCEPT ![r].email = "failed", ![r].pc = "done"]
          /\ Respond(r, 500)
    /\ UNCHANGED <<db, aux>>

----------------------------------------------------------------------------
(* GET /user-orders/:userId : the orders of one user *)

DigitValue(c) ==
    CASE c = "0" -> 0 [] c = "1" -> 1 [] c = "2" -> 2 [] c = "3" -> 3 [] c = "4" -> 4
      [] c = "5" -> 5 [] c = "6" -> 6 [] c = "7" -> 7 [] c = "8" -> 8 [] c = "9" -> 9

IsDigit(c) == c \in {"0", "1", "2", "3", "4", "5", "6", "7", "8", "9"}

\* parseInt of a string of characters: the value of its leading digits as <<n>>,
\* or <<>> (NaN, which is unequal to every number) when it has none
RECURSIVE ParseDigits(_, _)
ParseDigits(str, acc) ==
    IF str = <<>> \/ ~IsDigit(Head(str)) THEN acc
    ELSE ParseDigits(Tail(str), 10 * acc + DigitValue(Head(str)))

ParseInt(str) ==
    IF str = <<>> \/ ~IsDigit(Head(str)) THEN <<>> ELSE <<ParseDigits(str, 0)>>

\* line 195
Forbidden(requesterId, requesterRole, userId) ==
    <<requesterId>> # ParseInt(userId) /\ requesterRole # "admin"

\* the 403 branch returning
AfterForbidden_return == "done"

\* lines 196-198: the 403 branch has no return, so the query follows it
AfterForbidden == "l_find"

\* lines 191-198
StartList(r, callers, userIds) ==
    /\ rq[r].pc = "idle"
    /\ Admit(r)
    /\ \E caller \in callers, userId \in userIds :
          IF Forbidden(caller.id, caller.role, userId)
          THEN /\ Respond(r, 403)
               /\ rq' = [rq EXCEPT ![r] = [IdleReq EXCEPT
                            !.op = "list", !.caller = caller, !.userId = userId,
                            !.pc = AfterForbidden]]
          ELSE /\ UNCHANGED resp
               /\ rq' = [rq EXCEPT ![r] = [IdleReq EXCEPT
                            !.op = "list", !.caller = caller, !.userId = userId,
                            !.pc = "l_find"]]
    /\ UNCHANGED db

\* lines 198-211: Order.findAll({ where: { userId } })
ListFind(r) ==
    /\ rq[r].op = "list" /\ rq[r].pc = "l_find"
    /\ rq' = [rq EXCEPT
                 ![r].found = {o \in orders : <<o.userId>> = ParseInt(rq[r].userId)},
                 ![r].pc = "done"]
    /\ Respond(r, 200)
    /\ UNCHANGED <<db, aux>>

----------------------------------------------------------------------------
\* the request is over: its handler's variables are gone
Finish(r) ==
    /\ rq[r].pc = "done"
    /\ rq' = [rq EXCEPT ![r] = IdleReq]
    /\ resp' = [resp EXCEPT ![r] = <<>>]
    /\ UNCHANGED <<db, aux>>

Init ==
    /\ stock \in [Products -> 0..MaxStock]
    /\ orders = {}
    /\ orderItems = {}
    /\ nextOrderId = 1
    /\ nextItemId = 1
    /\ rq = [r \in Reqs |-> IdleReq]
    /\ resp = [r \in Reqs |-> <<>>]
    /\ pre = Snapshot
    /\ started = 0

\* the arguments requests are made with
AllInputs ==
    [lists |-> ItemLists, callers |-> Callers, orderIds |-> OrderIds,
     statuses |-> Statuses, userIds |-> UserIdParams]

\* the arguments used when requests race
RacingInputs ==
    [lists |-> RacingItemLists, callers |-> {[id |-> 1, role |-> "user"]},
     orderIds |-> 1..MaxOrders, statuses |-> {"shipped"}, userIds |-> {<<"1">>}]

\* a handler runs from one await to the next
Handle ==
    \/ \E r \in Reqs : CreateFindProduct(r)
    \/ \E r \in Reqs : CreateSaveProduct(r)
    \/ \E r \in Reqs : CreateOrderRow(r)
    \/ \E r \in Reqs : CreateFindProduct2(r)
    \/ \E r \in Reqs : CreateOrderItem(r)
    \/ \E r \in Reqs : CreateFetch(r)
    \/ \E r \in Reqs : CreateEmail(r)
    \/ \E r \in Reqs : UpdateFind(r)
    \/ \E r \in Reqs : UpdateSave(r)
    \/ \E r \in Reqs : DeleteFindOrder(r)
    \/ \E r \in Reqs : DeleteFindItems(r)
    \/ \E r \in Reqs : DeleteFindProduct(r)
    \/ \E r \in Reqs : DeleteSaveProduct(r)
    \/ \E r \in Reqs : DeleteDestroyItems(r)
    \/ \E r \in Reqs : DeleteDestroyOrder(r)
    \/ \E r \in Reqs : DeleteFindUser(r)
    \/ \E r \in Reqs : DeleteEmail(r)
    \/ \E r \in Reqs : ListFind(r)
    \/ \E r \in Reqs : Finish(r)

\* requests arrive at any time and interleave at every await
Next ==
    \/ \E r \in Reqs :
          StartCreate(r, RacingInputs.callers, RacingInputs.lists) /\ UNCHANGED pre
    \/ \E r \in Reqs :
          StartUpdate(r, RacingInputs.orderIds, RacingInputs.statuses) /\ UNCHANGED pre
    \/ \E r \in Reqs :
          StartDelete(r, RacingInputs.orderIds) /\ UNCHANGED pre
    \/ \E r \in Reqs :
          StartList(r, RacingInputs.callers, RacingInputs.userIds) /\ UNCHANGED pre
    \/ Handle

Spec == Init /\ [][Next]_vars

\* one request at a time, each run from its start to its end; pre keeps the tables
\* as the running request found them
Alone == \A q \in Reqs : rq[q].pc = "idle"

SeqNext ==
    \/ \E r \in Reqs :
          Alone /\ StartCreate(r, AllInputs.callers, AllInputs.lists) /\ pre' = Snapshot
    \/ \E r \in Reqs :
          Alone /\ StartUpdate(r, AllInputs.orderIds, AllInputs.statuses) /\ pre' = Snapshot
    \/ \E r \in Reqs :
          Alone /\ StartDelete(r, AllInputs.orderIds) /\ pre' = Snapshot
    \/ \E r \in Reqs :
          Alone /\ StartList(r, AllInputs.callers, AllInputs.userIds) /\ pre' = Snapshot
    \/ Handle

SeqSpec == Init /\ [][SeqNext]_vars

----------------------------------------------------------------------------
(* What the requests are expected to do, stated from their arguments *)

\* the quantity a products list asks of product p
RECURSIVE Requested(_, _)
Requested(products, p) ==
    IF products = <<>> THEN 0
    ELSE (IF Head(products).productId = p THEN Head(products).quantity ELSE 0)
         + Requested(Tail(products), p)

\* the sum of price * quantity over the entries whose product exists
RECURSIVE ExpectedTotal(_)
ExpectedTotal(products) ==
    IF products = <<>> THEN 0
    ELSE (IF Head(products).productId \in Products
          THEN ProductPrice[Head(products).productId] * Head(products).quantity
          ELSE 0)
         + ExpectedTotal(Tail(products))

\* the entries whose product exists
ExistingEntries(products) ==
    {k \in 1..Len(products) : products[k].productId \in Products}

\* the first entry, from the k-th on, that asks more than is left in st; 0 if none
RECURSIVE FirstShort(_, _, _)
FirstShort(products, st, k) ==
    IF k > Len(products) THEN 0
    ELSE LET p == products[k].productId
             q == products[k].quantity
         IN  IF p \notin Products THEN FirstShort(products, st, k + 1)
             ELSE IF q > st[p] THEN k
             ELSE FirstShort(products, [st EXCEPT ![p] = @ - q], k + 1)

\* the decimal numeral of a natural number, as a string of characters
DigitChar(d) ==
    CASE d = 0 -> "0" [] d = 1 -> "1" [] d = 2 -> "2" [] d = 3 -> "3" [] d = 4 -> "4"
      [] d = 5 -> "5" [] d = 6 -> "6" [] d = 7 -> "7" [] d = 8 -> "8" [] d = 9 -> "9"

RECURSIVE DecimalString(_)
DecimalString(n) ==
    IF n < 10 THEN <<DigitChar(n)>>
    ELSE Append(DecimalString(n \div 10), DigitChar(n % 10))

CreateDone(r) == rq[r].op = "create" /\ rq[r].pc = "done"

\* the Order row a create request inserted, as it is now
CreatedOrder(r) == {o \in orders : o.id = rq[r].newOrder}

\* the items a delete request has added back to the stock so far
RestoredItems(r) ==
    IF rq[r].op = "delete"
    THEN {rq[r].orderItems[k].id : k \in 1..(rq[r].i - 1)}
    ELSE {}

Quiescent == \A r \in Reqs : rq[r].pc \in {"idle", "done"}

----------------------------------------------------------------------------
(* C1 *)

\* C1 as stated: a CreateOrder run alone, each of whose entries asks no more than
\* its product's stock, answers 201, creates a pending Order whose totalPrice is
\* the sum of price * quantity over the entries whose product exists, and lowers
\* the stock of each such entry's product by exactly that entry's quantity.
C1_CreateOrderEachEntryInStock ==
    \A r \in Reqs :
        (/\ CreateDone(r)
         /\ \A k \in ExistingEntries(rq[r].products) :
                rq[r].products[k].quantity <= pre.stock[rq[r].products[k].productId])
        => /\ Head(resp[r]) = 201
           /\ \E o \in orders :
                /\ o.id = rq[r].newOrder
                /\ o.status = "pending"
                /\ o.totalPrice = ExpectedTotal(rq[r].products)
           /\ \A k \in ExistingEntries(rq[r].products) :
                stock[rq[r].products[k].productId]
                    = pre.stock[rq[r].products[k].productId] - rq[r].products[k].quantity

\* C1 amended: a CreateOrder run alone, whose entries together ask of each product
\* no more than its stock, answers 201, adds one pending Order whose totalPrice is
\* the sum of price * quantity over the entries whose product exists, and lowers
\* each product's stock by the total quantity the entries naming it ask for.
C1_CreateOrderTotalInStock ==
    \A r \in Reqs :
        (/\ CreateDone(r)
         /\ \A p \in Products : Requested(rq[r].products, p) <= pre.stock[p])
        => /\ Head(resp[r]) = 201
           /\ orders = pre.orders \cup
                  {[id |-> rq[r].newOrder, userId |-> rq[r].caller.id,
                    totalPrice |-> ExpectedTotal(rq[r].products), status |-> "pending"]}
           /\ rq[r].newOrder \notin {o.id : o \in pre.orders}
           /\ \A p \in Products :
                stock[p] = pre.stock[p] - Requested(rq[r].products, p)

\* a list naming product 1 twice was ordered and took its whole stock
C1_Witness ==
    \E r \in Reqs :
        /\ CreateDone(r)
        /\ Head(resp[r]) = 201
        /\ Len(rq[r].products) = 2
        /\ rq[r].products[1].productId = 1
        /\ rq[r].products[2].productId = 1
        /\ pre.stock[1] = 2
        /\ stock[1] = 0

----------------------------------------------------------------------------
(* C2 *)

\* C2: a CreateOrder run alone, one of whose entries asks more than is left of its
\* product when its turn comes, answers 400 and nothing else, naming the product
\* of the first such entry, and the Order and OrderItem tables are as before the
\* request.
C2_InsufficientStockCreatesNothing ==
    \A r \in Reqs :
        (/\ CreateDone(r)
         /\ \E p \in Products : Requested(rq[r].products, p) > pre.stock[p])
        => /\ resp[r] = <<400>>
           /\ FirstShort(rq[r].products, pre.stock, 1) > 0
           /\ rq[r].errorProduct
                = rq[r].products[FirstShort(rq[r].products, pre.stock, 1)].productId
           /\ orders = pre.orders
           /\ orderItems = pre.orderItems

\* refused while other orders and items exist
C2_Witness ==
    \E r \in Reqs :
        /\ CreateDone(r)
        /\ resp[r] = <<400>>
        /\ \E p \in Products : Requested(rq[r].products, p) > pre.stock[p]
        /\ orders # {}
        /\ orderItems # {}

----------------------------------------------------------------------------
(* C3 *)

\* C3: no OrderItem's quantity is added back to the stock by two DeleteOrder
\* requests (a second concurrent delete does not restore the stock twice).
C3_NoItemRestoredTwice ==
    \A r1, r2 \in Reqs :
        r1 # r2 => RestoredItems(r1) \cap RestoredItems(r2) = {}

\* a DeleteOrder run alone on an existing order adds each of its items' quantity
\* back to the stock once, removes the items and the order, and answers 200 first
C3_DeleteAloneRestoresStock ==
    \A r \in Reqs :
        (/\ rq[r].op = "delete" /\ rq[r].pc = "done"
         /\ \E o \in pre.orders : o.id = rq[r].orderId)
        => /\ Head(resp[r]) = 200
           /\ orders = {o \in pre.orders : o.id # rq[r].orderId}
           /\ orderItems = {it \in pre.orderItems : it.orderId # rq[r].orderId}
           /\ \A p \in Products :
                stock[p] = pre.stock[p]
                    + Requested(SortById({it \in pre.orderItems : it.orderId = rq[r].orderId}), p)

----------------------------------------------------------------------------
(* C4 *)

\* C4: ListOrdersForUser by a requester who is neither the user asked for nor an
\* admin answers 403 and then 200 with that user's orders; by the owner or an
\* admin it answers 200 with the user's orders and nothing else.
C4_ForbiddenIsNotTerminal ==
    \A r \in Reqs :
        (rq[r].op = "list" /\ rq[r].pc = "done")
        => /\ rq[r].found = {o \in orders : DecimalString(o.userId) = rq[r].userId}
           /\ IF DecimalString(rq[r].caller.id) # rq[r].userId /\ rq[r].caller.role # "admin"
              THEN resp[r] = <<403, 200>>
              ELSE resp[r] = <<200>>

\* a user was answered 403 and then the orders of another user
C4_Witness ==
    \E r \in Reqs :
        /\ rq[r].op = "list" /\ rq[r].pc = "done"
        /\ resp[r] = <<403, 200>>
        /\ rq[r].found # {}
        /\ \A o \in rq[r].found : o.userId # rq[r].caller.id

----------------------------------------------------------------------------
(* C5 *)

\* C5: UpdateOrderStatus run alone: if the order exists, its status becomes the
\* given value, whatever it was, and the answer is 200; if not, the answer is 404.
\* Every other column and row of Order, every OrderItem and every stock is unchanged.
C5_StatusOverwrittenVerbatim ==
    \A r \in Reqs :
        (rq[r].op = "update" /\ rq[r].pc = "done")
        => /\ stock = pre.stock
           /\ orderItems = pre.orderItems
           /\ IF \E o \in pre.orders : o.id = rq[r].orderId
              THEN /\ resp[r] = <<200>>
                   /\ orders = {IF o.id = rq[r].orderId
                                THEN [id |-> o.id, userId |-> o.userId,
                                      totalPrice |-> o.totalPrice, status |-> rq[r].status]
                                ELSE o : o \in pre.orders}
              ELSE /\ resp[r] = <<404>>
                   /\ orders = pre.orders

\* an order that was not pending was given a status outside every allowed set,
\* while another order existed
C5_Witness ==
    \E r \in Reqs :
        /\ rq[r].op = "update" /\ rq[r].pc = "done"
        /\ rq[r].status = "no-such-status"
        /\ \E o \in pre.orders : o.id = rq[r].orderId /\ o.status = "shipped"
        /\ \E o \in orders : o.id = rq[r].orderId /\ o.status = "no-such-status"

----------------------------------------------------------------------------
(* C6 *)

SoldQuantity(p) ==
    LET RECURSIVE Sum(_)
        Sum(S) == IF S = {} THEN 0
                  ELSE LET it == CHOOSE x \in S : TRUE
                       IN  it.quantity + Sum(S \ {it})
    IN  Sum({it \in orderItems : it.productId = p})

----------------------------------------------------------------------------
(* C7 *)

\* C7: a CreateOrder run alone that answers 400 at its k-th entry leaves each
\* product's stock lower by what the entries before the k-th asked of it, and
\* leaves no Order and no OrderItem; when no earlier entry's product exists, every
\* stock is as before.
C7_NoRollback ==
    \A r \in Reqs :
        (CreateDone(r) /\ Head(resp[r]) = 400)
        => LET k == FirstShort(rq[r].products, pre.stock, 1)
           IN  /\ k > 0
               /\ \A p \in Products :
                    stock[p] = pre.stock[p] - Requested(SubSeq(rq[r].products, 1, k - 1), p)
               /\ orders = pre.orders
               /\ orderItems = pre.orderItems

\* a request was refused at its second entry after its first had taken stock
C7_Witness ==
    \E r \in Reqs :
        /\ CreateDone(r) /\ Head(resp[r]) = 400
        /\ FirstShort(rq[r].products, pre.stock, 1) = 2
        /\ \E p \in Products : stock[p] < pre.stock[p]

----------------------------------------------------------------------------
(* C8 *)

\* what holds of the responses while and after the email is sent
EmailAfterResponse ==
    \A r \in Reqs :
        /\ rq[r].pc = "c_email" => resp[r] = <<201>>
        /\ rq[r].pc \in {"d_user", "d_email"} => resp[r] = <<200>>
        /\ rq[r].email # "none" => rq[r].pc = "done"
        /\ (rq[r].op = "create" /\ rq[r].email = "sent") => resp[r] = <<201>>
        /\ (rq[r].op = "create" /\ rq[r].email = "failed") => resp[r] = <<201, 500>>
        /\ (rq[r].op = "delete" /\ rq[r].email = "sent") => resp[r] = <<200>>
        /\ (rq[r].op = "delete" /\ rq[r].email = "failed") => resp[r] = <<200, 500>>

\* the step in which sendEmail resolves or rejects changes no table
EmailChangesNoTable ==
    \A r \in Reqs : rq'[r].email # rq[r].email => db' = db

\* C8: sendEmail is called after the 201 (the 200) is sent; whether it succeeds or
\* fails, the first response stays, no table changes, and a failure only adds the
\* catch block's 500 after it.
C8_EmailAfterResponse == []EmailAfterResponse /\ [][EmailChangesNoTable]_vars

\* the email of a created order failed after its 201
C8_Witness ==
    \E r \in Reqs :
        /\ CreateDone(r) /\ rq[r].email = "failed" /\ resp[r] = <<201, 500>>
        /\ CreatedOrder(r) # {}

----------------------------------------------------------------------------
(* C9 *)

\* when a CreateOrder answers 201: the Order's totalPrice is the sum of
\* price * quantity over the OrderItems of that order, which are one per entry
\* whose product exists, each at the product's price
TotalMatchesItems(r) ==
    LET mine == {it \in orderItems : it.orderId = rq[r].newOrder}
        RECURSIVE Sum(_)
        Sum(S) == IF S = {} THEN 0
                  ELSE LET it == CHOOSE x \in S : TRUE
                       IN  it.price * it.quantity + Sum(S \ {it})
    IN  /\ rq[r].totalPrice = Sum(mine)
        /\ Cardinality(mine) = Cardinality(ExistingEntries(rq[r].products))
        /\ \A it \in mine : it.price = ProductPrice[it.productId]

\* C9: in the state in which a CreateOrder answers 201, TotalMatchesItems holds,
\* whatever CreateOrder and DeleteOrder requests ran in between.
C9_TotalMatchesItems ==
    [][\A r \in Reqs :
          (rq[r].pc = "c_fetch" /\ rq'[r].pc = "c_email") => TotalMatchesItems(r)']_vars

----------------------------------------------------------------------------
(* C10 *)

\* C10: when no request is in progress, every OrderItem's orderId names an
\* existing Order, and no CreateOrder has answered 201 for an order that was gone.
C10_ItemsBelongToOrders ==
    /\ Quiescent => \A it \in orderItems : \E o \in orders : o.id = it.orderId
    /\ \A r \in Reqs :
         (rq[r].op = "create" /\ resp[r] # <<>> /\ Head(resp[r]) = 201)
         => rq[r].fullOrder # <<>>

====
